---- MODULE Spec2Model ----
(***************************************************************************)
(* A model of TravelApp.py (Currensee): the country directory, the cached  *)
(* rate lookup, the favorability engine and the two fetch flows of the     *)
(* Streamlit script.                                                       *)
(*                                                                         *)
(* Representation choices:                                                 *)
(*  - an optional value (a JSON field that may be missing or null, a local *)
(*    not yet bound) is a sequence of length 0 (None) or 1 (Some(x));      *)
(*  - a country name is a sequence of character codes (naturals), so that  *)
(*    Python's code-point string order is LexLess;                         *)
(*  - an exchange rate (a float) is a natural number of rate units, and a  *)
(*    percentage (a float) is an exact fraction [num, den] with den > 0;   *)
(*    floating-point rounding is not modelled;                             *)
(*  - a date is [year, month, day]; isoformat() yields a sequence of       *)
(*    one-character strings;                                               *)
(*  - time is a tick counter with TicksPerDay ticks to a day; the cache's  *)
(*    time-to-live of 24 hours is TicksPerDay ticks;                       *)
(*  - the fetch flows run against one sample directory and one home        *)
(*    currency of the selectbox's eight.                                   *)
(***************************************************************************)
EXTENDS Integers, Sequences, FiniteSets, TLC

VARIABLES
    \* ---- the fetch flows (Spec) ----
    key,        \* CURRENCYAPI_KEY, fixed for the life of the process
    clock,      \* the current time, in ticks
    cache,      \* st.cache_data's store of get_pair_rate_on_day: args -> [value, at]
    pc,         \* "idle" | "single" | "multi": the script run in progress
    flow,       \* the locals of the script run in progress
    shown,      \* what the page displays for the latest run, in display order
    reqLog,     \* the requests sent to the rate provider by the latest run
    calls,      \* the invocations of get_pair_rate_on_day by the latest run, in order
    pctArgs,    \* the (current, past) pairs pct_change was invoked with in the latest run
    history,    \* per argument tuple: when it was last called / last fetched a rate
    runs,       \* the number of script runs started
    \* ---- the country directory (SpecCountries) ----
    resp,       \* the restcountries response
    countries,  \* what load_countries returned
    \* ---- the favorability engine (SpecLabel) ----
    pct,        \* an input of favorability_label
    verdict     \* its result

flowVars == <<key, clock, cache, pc, flow, shown, reqLog, calls, pctArgs, history, runs>>
dirVars == <<resp, countries>>
lblVars == <<pct, verdict>>
vars == <<flowVars, dirVars, lblVars>>

None == <<>>
Some(x) == <<x>>

\* ------------------------------------------------------------------ bounds

\* The clock runs over the ticks 0..MaxClock, TicksPerDay ticks to a day.
MaxClock == 1
TicksPerDay == 1
\* Provider rate values are 0..MaxRate rate units.
MaxRate == 1
\* Script runs (button presses) per behaviour of Spec.
MaxRuns == 1
\* Direct calls of get_pair_rate_on_day per behaviour of SpecLookup.
MaxCalls == 2
\* Records in a restcountries response of SpecCountries.
MaxRecords == 2
\* Inputs of favorability_label are -PctRange..PctRange hundredths of a percent.
PctRange == 800

\* ------------------------------------------------------------- fractions

Rat(n, d) == [num |-> n, den |-> d]
RatLess(a, b) == a.num * b.den < b.num * a.den
RatLeq(a, b) == a.num * b.den <= b.num * a.den
RatEq(a, b) == a.num * b.den = b.num * a.den

\* ------------------------------------------------------------- calendar

IsLeap(y) == (y % 4 = 0 /\ y % 100 # 0) \/ y % 400 = 0

DaysInMonth(y, m) ==
    IF m = 2 THEN (IF IsLeap(y) THEN 29 ELSE 28)
    ELSE IF m \in {4, 6, 9, 11} THEN 30 ELSE 31

NextDay(d) ==
    IF d.day < DaysInMonth(d.year, d.month)
    THEN [d EXCEPT !.day = d.day + 1]
    ELSE IF d.month < 12
    THEN [year |-> d.year, month |-> d.month + 1, day |-> 1]
    ELSE [year |-> d.year + 1, month |-> 1, day |-> 1]

RECURSIVE AddDays(_, _)
AddDays(d, n) == IF n = 0 THEN d ELSE AddDays(NextDay(d), n - 1)

\* The calendar day on which the process starts: the day before a leap day,
\* so that the days of one behaviour include 29 February.
StartDate == [year |-> 2024, month |-> 2, day |-> 28]

\* date.today() at tick t
date_today(t) == AddDays(StartDate, t \div TicksPerDay)

\* d - relativedelta(years=n): same month and day n years earlier, the day
\* clipped to the length of that month
relativedelta_years(d, n) ==
    LET y == d.year - n
        last == DaysInMonth(y, d.month)
    IN  [year |-> y, month |-> d.month, day |-> IF d.day > last THEN last ELSE d.day]

Digits == <<"0", "1", "2", "3", "4", "5", "6", "7", "8", "9">>
Digit(n) == Digits[n + 1]
Pad2(n) == <<Digit((n \div 10) % 10), Digit(n % 10)>>
Pad4(n) == <<Digit((n \div 1000) % 10), Digit((n \div 100) % 10)>> \o Pad2(n % 100)

\* date.isoformat(): YYYY-MM-DD
isoformat(d) == Pad4(d.year) \o <<"-">> \o Pad2(d.month) \o <<"-">> \o Pad2(d.day)

\* ------------------------------------------------- favorability engine

\* pct_change(current, past): (current - past) / past * 100.0; a zero past
\* raises ZeroDivisionError
pct_change(current, past) ==
    IF past = 0 THEN [exc |-> "ZeroDivisionError", value |-> Rat(0, 1)]
    ELSE [exc |-> "", value |-> Rat((current - past) * 100, past)]

Favorable == "More favorable than ~1y ago"
Unfavorable == "Less favorable than ~1y ago"
Similar == "Similar to ~1y ago"

\* 7.5, the threshold of favorability_label
Threshold == Rat(15, 2)
NegThreshold == Rat(-15, 2)

favorability_label_strict(diff_vs_1y) ==
    IF RatLess(Threshold, diff_vs_1y) THEN Favorable
    ELSE IF RatLess(diff_vs_1y, NegThreshold) THEN Unfavorable
    ELSE Similar

favorability_label(diff_vs_1y) ==
    IF RatLeq(Threshold, diff_vs_1y) THEN Favorable
    ELSE IF RatLeq(diff_vs_1y, NegThreshold) THEN Unfavorable
    ELSE Similar

\* ---------------------------------------------------- country directory

\* Python's order on strings: lexicographic by code point
RECURSIVE LexLess(_, _)
LexLess(a, b) ==
    IF b = <<>> THEN FALSE
    ELSE IF a = <<>> THEN TRUE
    ELSE IF Head(a) # Head(b) THEN Head(a) < Head(b)
    ELSE LexLess(Tail(a), Tail(b))

\* list.sort(key=lambda x: x["name"]): ascending and stable. x goes after
\* every element whose name is not greater than its own.
RECURSIVE InsertByName(_, _)
InsertByName(x, sorted) ==
    IF sorted = <<>> THEN <<x>>
    ELSE IF LexLess(x.name, Head(sorted).name) THEN <<x>> \o sorted
    ELSE <<Head(sorted)>> \o InsertByName(x, Tail(sorted))

RECURSIVE SortByName(_)
SortByName(s) ==
    IF s = <<>> THEN <<>>
    ELSE InsertByName(s[Len(s)], SortByName(SubSeq(s, 1, Len(s) - 1)))

\* "not name or not cca2 or not currency_codes": None, "" and {} are falsy.
\* A raw record is [name, cca2, currencies]: name the optional name.common,
\* cca2 the optional code, currencies the optional mapping, given by its keys
\* in response order.
Retained(c) ==
    /\ c.name # None /\ c.name[1] # <<>>
    /\ c.cca2 # None /\ c.cca2[1] # ""
    /\ c.currencies # None /\ c.currencies[1] # <<>>

\* currency_codes[0]: the first key of the currencies mapping
primary_code(c) == c.currencies[1][1]

\* the record load_countries appends (the descriptive fields flag_url,
\* capital, region, currency_name and currency_symbol are copied from the raw
\* record and decide nothing; they are left out)
Country(c) ==
    [name |-> c.name[1], cca2 |-> c.cca2[1], currency_code |-> primary_code(c)]

RECURSIVE Collect(_)
Collect(data) ==
    IF data = <<>> THEN <<>>
    ELSE IF Retained(Head(data)) THEN <<Country(Head(data))>> \o Collect(Tail(data))
    ELSE Collect(Tail(data))

load_countries_unsorted(data) == Collect(data)

\* load_countries on a 200 response carrying the array data
load_countries(data) == SortByName(Collect(data))

\* The restcountries response the fetch flows run against, in response
\* order: two countries that are kept, one with no currency and one without
\* a code.
NameJapan == <<74, 97>>
NameUS == <<85, 110>>
NameAntarctica == <<65, 110>>
NameKosovo == <<75, 111>>

SampleData ==
    << [name |-> Some(NameUS), cca2 |-> Some("US"), currencies |-> Some(<<"USD">>)],
       [name |-> Some(NameAntarctica), cca2 |-> Some("AQ"), currencies |-> Some(<<>>)],
       [name |-> Some(NameKosovo), cca2 |-> None, currencies |-> Some(<<"EUR">>)],
       [name |-> Some(NameJapan), cca2 |-> Some("JP"), currencies |-> Some(<<"JPY">>)] >>

\* ---------------------------------------------------------- rate lookup

\* The cache's time-to-live, 24 * 3600 seconds, in ticks
TTL == TicksPerDay

\* What the rate provider may answer to one request:
\*   "ok"      200, data[dest].value = value
\*   "nodata"  200, data lacks dest (or dest lacks "value")
\*   "http"    an error status (429, 500)
\*   "neterr"  no response at all: requests raises ConnectionError / Timeout
ProviderResponses ==
    [kind : {"ok"}, status : {200}, value : 0..MaxRate]
    \cup { [kind |-> "nodata", status |-> 200, value |-> 0],
           [kind |-> "http", status |-> 429, value |-> 0],
           [kind |-> "http", status |-> 500, value |-> 0],
           [kind |-> "neterr", status |-> 0, value |-> 0] }

\* The outcome of a call: a returned value (exc = "") or a raised exception,
\* of class exc; status is e.response.status_code of an HTTPError.
Returned(v) == [exc |-> "", status |-> 0, msg |-> "", value |-> v]
Raised(cls, st, msg) == [exc |-> cls, status |-> st, msg |-> msg, value |-> 0]

MsgMissingKey == "Missing CURRENCYAPI_KEY."
MsgMissingData == "currencyapi response missing data"

\* _currencyapi_headers(): raises when CURRENCYAPI_KEY is None or empty
headers_without_key_check(k) ==
    [exc |-> "", msg |-> "", apikey |-> IF k = None THEN "" ELSE k[1]]

_currencyapi_headers(k) ==
    IF k = None \/ k[1] = ""
    THEN [exc |-> "RuntimeError", msg |-> MsgMissingKey, apikey |-> ""]
    ELSE [exc |-> "", msg |-> "", apikey |-> k[1]]

\* _get_json(url, params, headers): requests.get raises on a network
\* failure, raise_for_status() raises HTTPError on an error status
_get_json(r) ==
    IF r.kind = "neterr" THEN Raised("ConnectionError", 0, "")
    ELSE IF r.status >= 400 THEN Raised("HTTPError", r.status, "")
    ELSE Returned(0)

\* _parse_currencyapi_rate(resp_json, currency)
_parse_currencyapi_rate(r) ==
    IF r.kind = "nodata" THEN Raised("RuntimeError", 0, MsgMissingData)
    ELSE Returned(r.value)

\* The request get_pair_rate_on_day builds for a day that is / is not
\* date.today(); a "latest" request carries no date.
latest_request(home, dest, apikey) ==
    [endpoint |-> "latest", base_currency |-> home, currencies |-> dest,
     date |-> None, apikey |-> apikey]

historical_request(day, home, dest, apikey) ==
    [endpoint |-> "historical", base_currency |-> home, currencies |-> dest,
     date |-> Some(isoformat(day)), apikey |-> apikey]

build_request_always_latest(day, now, home, dest, apikey) ==
    latest_request(home, dest, apikey)

build_request(day, now, home, dest, apikey) ==
    IF day = date_today(now)
    THEN latest_request(home, dest, apikey)
    ELSE historical_request(day, home, dest, apikey)

\* The request and its outcome, once the headers are there
fetch_rate(day, home, dest, apikey, now, r) ==
    LET j == _get_json(r)
    IN  [out |-> IF j.exc # "" THEN j ELSE _parse_currencyapi_rate(r),
         reqs |-> <<build_request(day, now, home, dest, apikey)>>]

\* The body of get_pair_rate_on_day (what runs on a cache miss), at time
\* now, with key k, the provider answering r: the outcome and the requests
\* sent.
rate_body_no_identity(day, home, dest, k, now, r) ==
    LET h == _currencyapi_headers(k)
    IN  IF h.exc # "" THEN [out |-> Raised(h.exc, 0, h.msg), reqs |-> <<>>]
        ELSE fetch_rate(day, home, dest, h.apikey, now, r)

rate_body(day, home, dest, k, now, r) ==
    IF home = dest THEN [out |-> Returned(1), reqs |-> <<>>]
    ELSE LET h == _currencyapi_headers(k)
         IN  IF h.exc # "" THEN [out |-> Raised(h.exc, 0, h.msg), reqs |-> <<>>]
             ELSE fetch_rate(day, home, dest, h.apikey, now, r)

Args(day, home, dest) == [day |-> day, home |-> home, dest |-> dest]

\* st.cache_data(ttl=24 * 3600): an entry answers until it is ttl old
cache_hit_never(c, a, now) == FALSE

cache_hit(c, a, now) == a \in DOMAIN c /\ now < c[a].at + TTL

\* st.cache_data stores a returned value under the arguments; a raised
\* exception propagates and nothing is stored
cache_store(c, a, out, now) ==
    IF out.exc # "" THEN c
    ELSE [x \in DOMAIN c \cup {a} |-> IF x = a THEN [value |-> out.value, at |-> now] ELSE c[x]]

\* get_pair_rate_on_day(day, home, dest) as decorated: the call record
\* (arguments, time, whether the cache answered, requests sent, outcome) and
\* the cache after it
get_pair_rate_on_day(day, home, dest, c, k, now, r) ==
    LET a == Args(day, home, dest)
    IN  IF cache_hit(c, a, now)
        THEN [args |-> a, at |-> now, hit |-> TRUE, reqs |-> <<>>,
              out |-> Returned(c[a].value), cache |-> c]
        ELSE LET b == rate_body(day, home, dest, k, now, r)
             IN  [args |-> a, at |-> now, hit |-> FALSE, reqs |-> b.reqs,
                  out |-> b.out, cache |-> cache_store(c, a, b.out, now)]

\* ------------------------------------------------------------- display

\* One displayed element. kind is "error" (st.error), "exception"
\* (st.exception), "uncaught" (an exception no handler caught, shown by the
\* runtime), "warning", "metric", "verdict", "row" (a table row) or "top"
\* (st.success). Numbers are shown from their exact values; the "+.1f" and
\* ",.4f" formatting of the page is not modelled.
Item(kind, text) ==
    [kind |-> kind, text |-> text, country |-> <<>>, currency |-> "",
     rate |-> 0, past |-> 0, change |-> Rat(0, 1), verdict |-> ""]

MsgThrottled == "Too many requests (429). You may be temporarily throttled"
MsgHTTP == "HTTP error from currencyapi."
MsgFetchSingle == "Couldn't fetch rates (check API key, currency codes, or plan limits)."
MsgFetchCompare == "Couldn't fetch comparison rates."
MsgPickOne == "Pick at least one destination country."

\* The handlers of both flows: except requests.HTTPError (429 or not), then
\* except Exception, each followed by st.exception(e) and st.stop().
\* requests.ConnectionError and requests.Timeout are not HTTPError.
except_handlers_silent(e, fetchMsg) ==
    IF e.exc = "HTTPError"
    THEN << Item("error", IF e.status = 429 THEN MsgThrottled ELSE MsgHTTP),
            Item("exception", e.exc) >>
    ELSE <<>>

except_handlers(e, fetchMsg) ==
    IF e.exc = "HTTPError"
    THEN << Item("error", IF e.status = 429 THEN MsgThrottled ELSE MsgHTTP),
            Item("exception", e.exc) >>
    ELSE << Item("error", fetchMsg), Item("exception", e.exc) >>

Metric(label, r) == [Item("metric", label) EXCEPT !.rate = r]
MetricDelta(label, r, p) == [Item("metric", label) EXCEPT !.rate = r, !.change = p]

\* Lines 204-212, after four successful lookups: the metrics and the
\* verdict, in display order. got = <<r_today, r_1y, r_3y, r_5y>>. Each
\* pct_change runs when its metric is built; a ZeroDivisionError is caught by
\* nothing and ends the run there. The result is what is shown and the
\* arguments pct_change was invoked with.
RECURSIVE render_metrics(_, _, _)
render_metrics(r_today, labels, past) ==
    IF past = <<>> THEN [shown |-> <<>>, pctArgs |-> {}, crashed |-> FALSE]
    ELSE LET p == pct_change(r_today, Head(past))
             a == [current |-> r_today, past |-> Head(past)]
         IN  IF p.exc # ""
             THEN [shown |-> <<Item("uncaught", p.exc)>>, pctArgs |-> {a}, crashed |-> TRUE]
             ELSE LET rest == render_metrics(r_today, Tail(labels), Tail(past))
                  IN  [shown |-> <<MetricDelta(Head(labels), Head(past), p.value)>> \o rest.shown,
                       pctArgs |-> {a} \cup rest.pctArgs,
                       crashed |-> rest.crashed]

render_single(got) ==
    LET m == render_metrics(got[1], <<"~1 year ago", "~3 years ago", "~5 years ago">>, Tail(got))
        diff == pct_change(got[1], got[2])
    IN  [shown |-> <<Metric("Today", got[1])>> \o m.shown
                   \o (IF m.crashed THEN <<>>
                       ELSE <<[Item("verdict", "Verdict") EXCEPT
                                  !.verdict = favorability_label(diff.value)]>>),
         pctArgs |-> m.pctArgs]

\* rows.sort(key=lambda r: r["% vs ~1y"], reverse=True): descending and
\* stable. x goes after every row whose change is not smaller than its own.
RECURSIVE InsertByChange(_, _)
InsertByChange(x, sorted) ==
    IF sorted = <<>> THEN <<x>>
    ELSE IF RatLess(Head(sorted).change, x.change) THEN <<x>> \o sorted
    ELSE <<Head(sorted)>> \o InsertByChange(x, Tail(sorted))

RECURSIVE SortByChange(_)
SortByChange(s) ==
    IF s = <<>> THEN <<>>
    ELSE InsertByChange(s[Len(s)], SortByChange(SubSeq(s, 1, Len(s) - 1)))

sort_rows_ascending(rows) ==
    LET d == SortByChange(rows) IN [i \in 1..Len(d) |-> d[Len(d) + 1 - i]]

sort_rows(rows) == SortByChange(rows)

\* Lines 297-320: sort, the table, and the "most favorable" line (rows[0],
\* an IndexError nothing catches when there is no row)
render_compare(rows) ==
    LET sorted == sort_rows(rows)
    IN  IF sorted = <<>> THEN <<Item("uncaught", "IndexError")>>
        ELSE sorted \o <<[sorted[1] EXCEPT !.kind = "top"]>>

Row(c, r_today, r_1y, change) ==
    [Item("row", "") EXCEPT !.country = c.name, !.currency = c.currency_code,
        !.rate = r_today, !.past = r_1y, !.change = change,
        !.verdict = favorability_label(change)]

\* ------------------------------------------------------- the script run

\* countries = load_countries(), for the sample response
Directory == load_countries(SampleData)

\* The home currencies offered: of the selectbox's eight, the one that is
\* also the currency of a directory country.
HomeChoices == {"USD"}

\* max_selections of the multiselect
MaxSelections == 8

\* name_to_country = {c["name"]: c for c in countries}, then .get(name):
\* the last country of that name, or None
name_to_country(list, name) ==
    LET idx == {i \in 1..Len(list) : list[i].name = name}
    IN  IF idx = {} THEN None
        ELSE Some(list[CHOOSE i \in idx : \A j \in idx : j <= i])

\* next(c for c in countries if c["name"] == chosen_name): the first one
chosen_country(list, name) ==
    list[CHOOSE i \in 1..Len(list) :
            /\ list[i].name = name
            /\ \A j \in 1..(i - 1) : list[j].name # name]

\* labels = ["Name (CCY)" for c in countries]; a label is the pair it is
\* built from, and lab.rsplit(" (", 1)[0] is its name
Labels(list) == {[name |-> list[i].name, ccy |-> list[i].currency_code] : i \in 1..Len(list)}

\* What the multiselect can hold: distinct labels in selection order
Selections(list) ==
    {sel \in UNION {[1..n -> Labels(list)] :
                       n \in {m \in 0..MaxSelections : m <= Cardinality(Labels(list))}} :
        \A i, j \in 1..Len(sel) : i # j => sel[i] # sel[j]}

\* The locals of a script run; NoFlow between runs
NoFlow ==
    [home |-> "", today |-> StartDate, dest |-> "", todo |-> <<>>, got |-> <<>>,
     selected_labels |-> <<>>, i |-> 0, part |-> None, rows |-> <<>>]

NoHistory == [called |-> <<>>, fetched |-> <<>>]

Remember(f, a, t) == [x \in DOMAIN f \cup {a} |-> IF x = a THEN t ELSE f[x]]
Recall(f, a) == IF a \in DOMAIN f THEN Some(f[a]) ELSE None

\* A call as the run's log keeps it: with when the same arguments were last
\* called, and last fetched a rate
CallRecord(call) ==
    [args |-> call.args, at |-> call.at, hit |-> call.hit, reqs |-> call.reqs,
     out |-> call.out,
     prevCalled |-> Recall(history.called, call.args),
     prevFetched |-> Recall(history.fetched, call.args)]

\* What every invocation of get_pair_rate_on_day leaves behind
Invoke(call) ==
    /\ cache' = call.cache
    /\ reqLog' = reqLog \o call.reqs
    /\ calls' = Append(calls, CallRecord(call))
    /\ history' = [called |-> Remember(history.called, call.args, call.at),
                   fetched |-> IF ~call.hit /\ call.out.exc = ""
                               THEN Remember(history.fetched, call.args, call.at)
                               ELSE history.fetched]

\* st.stop() after the handlers, or the end of the script: the run is over.
\* Of its locals the widgets' values stay, for the page still shows them.
EndRun(display, pcts) ==
    /\ pc' = "idle"
    /\ flow' = [NoFlow EXCEPT !.home = flow.home, !.selected_labels = flow.selected_labels]
    /\ shown' = display
    /\ pctArgs' = pcts

\* The process has started: nothing cached, no run yet
FlowStart ==
    /\ clock = 0
    /\ cache = <<>>
    /\ pc = "idle"
    /\ flow = NoFlow
    /\ shown = <<>>
    /\ reqLog = <<>>
    /\ calls = <<>>
    /\ pctArgs = {}
    /\ history = NoHistory
    /\ runs = 0

\* CURRENCYAPI_KEY after lines 9-15: a secret, an imported key, or None
Keys == {None, Some(""), Some("k1")}

\* load_countries() has answered with the sample directory
DirLoaded ==
    /\ resp = [status |-> 200, data |-> SampleData]
    /\ countries = [state |-> "loaded", list |-> Directory]

LabelIdle ==
    /\ pct = Rat(0, 100)
    /\ verdict = ""

Init ==
    /\ key \in Keys
    /\ FlowStart
    /\ DirLoaded
    /\ LabelIdle

\* Time passes, also while a run waits for the provider
Tick ==
    /\ clock < MaxClock
    /\ clock' = clock + 1
    /\ UNCHANGED <<key, cache, pc, flow, shown, reqLog, calls, pctArgs, history, runs>>
    /\ UNCHANGED <<dirVars, lblVars>>

\* A rerun of the script with the snapshot button pressed: lines 137-175
FetchSingle(home, name) ==
    /\ pc = "idle"
    /\ runs < MaxRuns
    /\ runs' = runs + 1
    /\ LET today == date_today(clock)
       IN  flow' = [NoFlow EXCEPT
                      !.home = home,
                      !.today = today,
                      !.dest = chosen_country(countries.list, name).currency_code,
                      !.todo = << today, relativedelta_years(today, 1),
                                  relativedelta_years(today, 3),
                                  relativedelta_years(today, 5) >>]
    /\ pc' = "single"
    /\ shown' = <<>>
    /\ reqLog' = <<>>
    /\ calls' = <<>>
    /\ pctArgs' = {}
    /\ UNCHANGED <<key, clock, cache, history>>
    /\ UNCHANGED <<dirVars, lblVars>>

\* Lines 186-212: the next of the four lookups; on an exception the
\* handlers and st.stop(); after the fourth, the metrics and the verdict
SingleLookup(r) ==
    /\ pc = "single"
    /\ LET call == get_pair_rate_on_day(Head(flow.todo), flow.home, flow.dest,
                                        cache, key, clock, r)
           got == Append(flow.got, call.out.value)
       IN  /\ Invoke(call)
           /\ IF call.out.exc # ""
              THEN EndRun(except_handlers(call.out, MsgFetchSingle), {})
              ELSE IF Len(flow.todo) > 1
              THEN /\ flow' = [flow EXCEPT !.todo = Tail(flow.todo), !.got = got]
                   /\ UNCHANGED <<pc, shown, pctArgs>>
              ELSE LET page == render_single(got)
                   IN  EndRun(page.shown, page.pctArgs)
    /\ UNCHANGED <<key, clock, runs>>
    /\ UNCHANGED <<dirVars, lblVars>>

\* A rerun of the script with the compare button pressed: lines 137-175 and
\* 231-255; with nothing selected, the warning
CompareStart(home, sel) ==
    /\ pc = "idle"
    /\ runs < MaxRuns
    /\ runs' = runs + 1
    /\ reqLog' = <<>>
    /\ calls' = <<>>
    /\ flow' = [NoFlow EXCEPT !.home = home, !.today = date_today(clock),
                              !.selected_labels = sel, !.i = 1]
    /\ pctArgs' = {}
    /\ IF sel = <<>>
       THEN pc' = "idle" /\ shown' = <<Item("warning", MsgPickOne)>>
       ELSE pc' = "multi" /\ shown' = <<>>
    /\ UNCHANGED <<key, clock, cache, history>>
    /\ UNCHANGED <<dirVars, lblVars>>

\* The end of one iteration of the loop of lines 257-281 with the rows so
\* far: the next label, or lines 297-320
NextLabel(rows, pcts) ==
    IF flow.i < Len(flow.selected_labels)
    THEN /\ flow' = [flow EXCEPT !.i = flow.i + 1, !.part = None, !.rows = rows]
         /\ pctArgs' = pcts
         /\ UNCHANGED <<pc, shown>>
    ELSE EndRun(render_compare(rows), pcts)

\* Lines 272-281: the change and the row of country c; a ZeroDivisionError is
\* raised inside the try and lands in "except Exception"
AddRow(c, r_today, r_1y) ==
    LET change == pct_change(r_today, r_1y)
        pcts == pctArgs \cup {[current |-> r_today, past |-> r_1y]}
    IN  IF change.exc # ""
        THEN EndRun(except_handlers(Raised(change.exc, 0, ""), MsgFetchCompare), pcts)
        ELSE NextLabel(Append(flow.rows, Row(c, r_today, r_1y, change.value)), pcts)

\* Lines 257-296, up to the next lookup and what follows it: a label that
\* names no country is skipped, the home currency itself takes no lookup,
\* otherwise today's rate and then the rate a year ago are looked up
CompareStep(r) ==
    /\ pc = "multi"
    /\ LET c == name_to_country(countries.list, flow.selected_labels[flow.i].name)
       IN  IF c = None
           THEN /\ NextLabel(flow.rows, pctArgs)
                /\ UNCHANGED <<cache, reqLog, calls, history>>
           ELSE IF flow.home = c[1].currency_code
           THEN /\ AddRow(c[1], 1, 1)
                /\ UNCHANGED <<cache, reqLog, calls, history>>
           ELSE LET day == IF flow.part = None THEN flow.today
                           ELSE relativedelta_years(flow.today, 1)
                    call == get_pair_rate_on_day(day, flow.home, c[1].currency_code,
                                                 cache, key, clock, r)
                IN  /\ Invoke(call)
                    /\ IF call.out.exc # ""
                       THEN EndRun(except_handlers(call.out, MsgFetchCompare), pctArgs)
                       ELSE IF flow.part = None
                       THEN /\ flow' = [flow EXCEPT !.part = Some(call.out.value)]
                            /\ UNCHANGED <<pc, shown, pctArgs>>
                       ELSE AddRow(c[1], flow.part[1], call.out.value)
    /\ UNCHANGED <<key, clock, runs>>
    /\ UNCHANGED <<dirVars, lblVars>>

Next ==
    \/ Tick
    \/ \E home \in HomeChoices, i \in 1..Len(countries.list) :
          FetchSingle(home, countries.list[i].name)
    \/ \E r \in ProviderResponses : SingleLookup(r)
    \/ \E home \in HomeChoices, sel \in Selections(countries.list) :
          CompareStart(home, sel)
    \/ \E r \in ProviderResponses : CompareStep(r)

Spec == Init /\ [][Next]_vars

\* ------------------------------------- the rate lookup, called directly

LookupDays ==
    {date_today(t) : t \in 0..MaxClock} \cup {relativedelta_years(StartDate, 1)}
LookupHomes == {"USD"}
LookupDests == {"USD", "JPY"}

\* One call get_pair_rate_on_day(day, home, dest), the provider answering r
Lookup(day, home, dest, r) ==
    /\ Len(calls) < MaxCalls
    /\ Invoke(get_pair_rate_on_day(day, home, dest, cache, key, clock, r))
    /\ UNCHANGED <<key, clock, pc, flow, shown, pctArgs, runs>>
    /\ UNCHANGED <<dirVars, lblVars>>

NextLookup ==
    \/ Tick
    \/ \E day \in LookupDays, home \in LookupHomes, dest \in LookupDests,
          r \in ProviderResponses : Lookup(day, home, dest, r)

SpecLookup == Init /\ [][NextLookup]_vars

\* ------------------------------------------- the country directory alone

\* The raw records of a response: name.common missing, empty or a name
\* (one a prefix of another), cca2 missing, empty or a code, currencies
\* missing, empty, or with one or two keys (the first not the alphabetically
\* first)
RawNames == {None, Some(<<>>), Some(<<66>>), Some(<<65>>), Some(<<65, 66>>)}
RawCodes == {None, Some(""), Some("JP")}
RawCurrencies == {None, Some(<<>>), Some(<<"JPY">>), Some(<<"USD", "PAB">>)}
RawRecords == [name : RawNames, cca2 : RawCodes, currencies : RawCurrencies]

\* The restcountries answers: the array, or an error status
Responses ==
    {[status |-> 200, data |-> d] : d \in UNION {[1..n -> RawRecords] : n \in 0..MaxRecords}}
    \cup {[status |-> 500, data |-> <<>>]}

InitCountries ==
    /\ key = None
    /\ FlowStart
    /\ resp \in Responses
    /\ countries = [state |-> "unloaded", list |-> <<>>]
    /\ LabelIdle

\* countries = load_countries() (line 137): _get_json raises on an error
\* status and nothing is returned
LoadCountries ==
    /\ countries.state = "unloaded"
    /\ countries' = IF resp.status >= 400
                     THEN [state |-> "raised", list |-> <<>>]
                     ELSE [state |-> "loaded", list |-> load_countries(resp.data)]
    /\ UNCHANGED <<flowVars, resp, lblVars>>

NextCountries == LoadCountries

SpecCountries == InitCountries /\ [][NextCountries]_vars

\* ----------------------------------------- the favorability label alone

InitLabel ==
    /\ key = None
    /\ FlowStart
    /\ DirLoaded
    /\ pct \in {Rat(h, 100) : h \in -PctRange..PctRange}
    /\ verdict = ""

Label ==
    /\ verdict = ""
    /\ verdict' = favorability_label(pct)
    /\ UNCHANGED <<flowVars, dirVars, pct>>

NextLabelOnly == Label

SpecLabel == InitLabel /\ [][NextLabelOnly]_vars

\* ================================================================ claims

LastCall == calls[Len(calls)]
Kinds(display) == {display[j].kind : j \in 1..Len(display)}
ResultKinds == {"metric", "verdict", "row", "top"}

\* C1: in both flows, once a rate lookup has raised, it is the last lookup of
\* that run, the run is over, an error is shown, and no rate, verdict,
\* comparison row or "most favorable" line of that run is displayed.
C1_FailFast ==
    \A n \in 1..Len(calls) :
        calls[n].out.exc # "" =>
            /\ n = Len(calls)
            /\ pc = "idle"
            /\ "error" \in Kinds(shown)
            /\ Kinds(shown) \cap ResultKinds = {}

\* C1's case: a multi-destination run whose second lookup failed after the
\* first had returned a rate, and a network failure at that.
C1_Witness ==
    /\ Len(calls) = 2
    /\ flow.selected_labels # <<>>
    /\ calls[1].out.exc = ""
    /\ calls[2].out.exc = "ConnectionError"
    /\ pc = "idle"

\* The notice the claim C3 expects for an exception of a fetch flow
ExpectedNotice(e, fetchMsg) ==
    IF e.exc = "HTTPError" /\ e.status = 429 THEN MsgThrottled
    ELSE IF e.exc \in {"HTTPError", "ConnectionError"} THEN MsgHTTP
    ELSE fetchMsg

FetchMsgOfRun == IF flow.selected_labels = <<>> THEN MsgFetchSingle ELSE MsgFetchCompare

\* C3 (as claimed): when a run ends in a lookup error, the notice shown is
\* the throttling notice for a 429, the generic HTTP notice for every other
\* transport failure, network failures without a response included, and the
\* "couldn't fetch" notice for the rest.
C3_NoticeByKind ==
    (calls # <<>> /\ LastCall.out.exc # "") =>
        (shown # <<>> /\ shown[1].kind = "error"
            /\ shown[1].text = ExpectedNotice(LastCall.out, FetchMsgOfRun))

\* The rows of the comparison table, in display order
ShownRows == SelectSeq(shown, LAMBDA it : it.kind = "row")
ShownTop == SelectSeq(shown, LAMBDA it : it.kind = "top")

\* The place of a row's country among the selected labels
SelectedAt(row) ==
    CHOOSE k \in 1..Len(flow.selected_labels) :
        flow.selected_labels[k].name = row.country

\* C4: when the multi-destination flow completes, there is one row per
\* selected destination, the rows are in descending order of change, rows of
\* equal change are in selection order, and the "most favorable" line names
\* the first row, whose change is the greatest.
C4_SortedStableTop ==
    ShownTop # <<>> =>
        LET rows == ShownRows
            top == ShownTop[1]
        IN  /\ Len(rows) = Len(flow.selected_labels)
            /\ \A a, b \in 1..Len(rows) : a < b =>
                  /\ ~RatLess(rows[a].change, rows[b].change)
                  /\ RatEq(rows[a].change, rows[b].change)
                        => SelectedAt(rows[a]) < SelectedAt(rows[b])
            /\ top.country = rows[1].country
            /\ top.currency = rows[1].currency
            /\ top.change = rows[1].change
            /\ \A a \in 1..Len(rows) : ~RatLess(top.change, rows[a].change)

\* C4's case: two rows, the one selected second with the greater change and
\* shown first.
C4_Witness ==
    /\ ShownTop # <<>>
    /\ Len(ShownRows) = 2
    /\ RatLess(ShownRows[2].change, ShownRows[1].change)
    /\ ShownRows[1].country = flow.selected_labels[2].name

\* C10 (as claimed): pct_change is never invoked with a zero past rate, and
\* no run ends in a division by zero that nothing caught.
C10_NoZeroBaseline ==
    /\ \A a \in pctArgs : a.past # 0
    /\ \A j \in 1..Len(shown) :
          ~(shown[j].kind = "uncaught" /\ shown[j].text = "ZeroDivisionError")

\* C2 (as claimed): after any call with home # dest, whatever its outcome, a
\* further call with the same arguments less than 24 hours later sends no
\* request.
C2_NoRefetchAfterAnyCall ==
    \A n \in 1..Len(calls) :
        LET c == calls[n]
        IN  (c.args.home # c.args.dest /\ c.prevCalled # None
                /\ c.at < c.prevCalled[1] + TTL)
            => c.reqs = <<>>

\* C2 (amended): after a call with home # dest that fetched and returned a
\* rate, a further call with the same arguments less than 24 hours after
\* that fetch sends no request and returns a rate.
C2_NoRefetchAfterFetchedRate ==
    \A n \in 1..Len(calls) :
        LET c == calls[n]
        IN  (c.args.home # c.args.dest /\ c.prevFetched # None
                /\ c.at < c.prevFetched[1] + TTL)
            => (c.reqs = <<>> /\ c.out.exc = "")

\* C2's case: the same arguments called twice within the window, the first
\* call having fetched a rate, the second answered without a request.
C2_Witness ==
    /\ Len(calls) = 2
    /\ calls[2].args = calls[1].args
    /\ calls[2].args.home # calls[2].args.dest
    /\ calls[1].reqs # <<>>
    /\ calls[1].out.exc = ""
    /\ calls[2].at < calls[1].at + TTL
    /\ calls[2].reqs = <<>>

KeyMissing == key = None \/ key[1] = ""

\* C5: with no API key configured, every call with home # dest raises the
\* configuration error and sends no request; and no request is ever sent
\* without the configured key in its apikey header.
C5_NoUnauthenticatedRequest ==
    /\ KeyMissing =>
          \A n \in 1..Len(calls) :
              calls[n].args.home # calls[n].args.dest =>
                  /\ calls[n].out.exc = "RuntimeError"
                  /\ calls[n].out.msg = MsgMissingKey
                  /\ calls[n].reqs = <<>>
    /\ \A j \in 1..Len(reqLog) :
          ~KeyMissing /\ reqLog[j].apikey = key[1]

\* C5's case: the key is the empty string and a lookup of a foreign
\* currency has been attempted.
C5_Witness ==
    /\ key = Some("")
    /\ calls # <<>>
    /\ LastCall.args.home # LastCall.args.dest
    /\ LastCall.out.exc = "RuntimeError"

\* C6: a call with home = dest returns exactly 1 and sends no request,
\* whatever the key and the cache.
C6_IdentityRate ==
    \A n \in 1..Len(calls) :
        calls[n].args.home = calls[n].args.dest =>
            /\ calls[n].out.exc = ""
            /\ calls[n].out.value = 1
            /\ calls[n].reqs = <<>>

\* C6's case: an identity call with no key configured, after a lookup of a
\* foreign currency has failed for the lack of it.
C6_Witness ==
    /\ key = None
    /\ Len(calls) = 2
    /\ calls[1].out.exc = "RuntimeError"
    /\ calls[2].args.home = calls[2].args.dest
    /\ ~calls[2].hit

\* What an ISO 8601 date string YYYY-MM-DD says
DigitValue(ch) == CHOOSE d \in 0..9 : Digits[d + 1] = ch
IsDigit(ch) == \E d \in 0..9 : Digits[d + 1] = ch
ParseIso(str) ==
    [year |-> DigitValue(str[1]) * 1000 + DigitValue(str[2]) * 100
              + DigitValue(str[3]) * 10 + DigitValue(str[4]),
     month |-> DigitValue(str[6]) * 10 + DigitValue(str[7]),
     day |-> DigitValue(str[9]) * 10 + DigitValue(str[10])]
IsIsoDate(str) ==
    /\ Len(str) = 10
    /\ str[5] = "-" /\ str[8] = "-"
    /\ \A k \in {1, 2, 3, 4, 6, 7, 9, 10} : IsDigit(str[k])

\* C7: an uncached call with home # dest and a configured key sends exactly
\* one request, with base = home and currencies = dest: a "latest" request
\* without a date when day is the current date at the time of the call,
\* otherwise a "historical" request whose date is day as YYYY-MM-DD.
C7_OneRequestByDay ==
    \A n \in 1..Len(calls) :
        LET c == calls[n]
        IN  (~c.hit /\ c.args.home # c.args.dest /\ ~KeyMissing) =>
                /\ Len(c.reqs) = 1
                /\ c.reqs[1].base_currency = c.args.home
                /\ c.reqs[1].currencies = c.args.dest
                /\ IF c.args.day = date_today(c.at)
                   THEN c.reqs[1].endpoint = "latest" /\ c.reqs[1].date = None
                   ELSE /\ c.reqs[1].endpoint = "historical"
                        /\ c.reqs[1].date # None
                        /\ IsIsoDate(c.reqs[1].date[1])
                        /\ ParseIso(c.reqs[1].date[1]) = c.args.day

\* C7's case: the day the process started is looked up a day later, which
\* takes a historical request, after a lookup of the then current day.
C7_Witness ==
    /\ Len(calls) = 2
    /\ ~KeyMissing
    /\ calls[1].reqs # <<>> /\ calls[1].reqs[1].endpoint = "latest"
    /\ calls[2].args.day = StartDate
    /\ date_today(calls[2].at) # StartDate
    /\ calls[2].reqs # <<>> /\ calls[2].reqs[1].endpoint = "historical"

\* C8: the verdict is Favorable exactly from 7.5 up, Unfavorable exactly
\* from -7.5 down and Similar strictly between; pct is in hundredths.
C8_InclusiveThresholds ==
    verdict # "" =>
        /\ verdict \in {Favorable, Unfavorable, Similar}
        /\ verdict = Favorable <=> pct.num >= 750
        /\ verdict = Unfavorable <=> pct.num <= -750
        /\ verdict = Similar <=> (-750 < pct.num /\ pct.num < 750)

\* C8's case: the label of exactly 7.5
C8_Witness == pct.num = 750 /\ pct.den = 100 /\ verdict = Favorable

\* How often x occurs in the sequence s
Count(s, x) == Cardinality({k \in 1..Len(s) : s[k] = x})

\* The raw records of the response that have a name, a code and a currency
KeptIndices ==
    {k \in 1..Len(resp.data) :
        /\ resp.data[k].name \notin {None, Some(<<>>)}
        /\ resp.data[k].cca2 \notin {None, Some("")}
        /\ resp.data[k].currencies \notin {None, Some(<<>>)}}

Expected(k) ==
    [name |-> resp.data[k].name[1], cca2 |-> resp.data[k].cca2[1],
     currency_code |-> Head(resp.data[k].currencies[1])]

\* C9: load_countries returns exactly the records with a non-empty name,
\* code and currencies mapping, each as often as the response holds it and
\* with the first currency key as its currency_code, in ascending order of
\* name.
C9_FilteredSorted ==
    countries.state = "loaded" =>
        LET list == countries.list
        IN  /\ Len(list) = Cardinality(KeptIndices)
            /\ \A k \in KeptIndices :
                  Count(list, Expected(k))
                    = Cardinality({m \in KeptIndices : Expected(m) = Expected(k)})
            /\ \A a, b \in 1..Len(list) : a < b => ~LexLess(list[b].name, list[a].name)

\* C9's case: two records are kept, the second of the response first in
\* the result, its currency_code the first of its two currency keys though
\* not the alphabetically first.
C9_Witness ==
    /\ countries.state = "loaded"
    /\ Len(resp.data) = 2
    /\ Len(countries.list) = 2
    /\ resp.data[2].currencies = Some(<<"USD", "PAB">>)
    /\ countries.list[1].currency_code = "USD"
    /\ LexLess(countries.list[1].name, countries.list[2].name)
    /\ countries.list[2].name = resp.data[1].name[1]

====
